---- MODULE Spec2Model ----
(***************************************************************************)
(* Loongson-3 platform glue: the LS7A PCI host bridge (hw/pci-host/ls7a.c) *)
(* and the machine's power-management trap and boot-parameter builder      *)
(* (hw/mips/mips_loongson3.c).                                             *)
(*                                                                         *)
(* Numbers wider than 31 bits are kept as little-endian byte sequences:    *)
(* a configuration-space dword is <<b0, b1, b2, b3>> with b0 the byte at   *)
(* the lowest offset, exactly as pci_set_long()/pci_get_long() store it.   *)
(***************************************************************************)
EXTENDS Integers, Sequences, FiniteSets, TLC

VARIABLES
    \* ---- power-management trap (mips_loongson3.c) ----
    pmResetRequests,     \* calls of qemu_system_reset_request so far
    pmShutdownRequests,  \* calls of qemu_system_shutdown_request so far
    pmLog,               \* every access made so far, in order
    pmReadVal,           \* what the last read returned
    \* ---- LS7A bridge function, PCI configuration space (ls7a.c) ----
    config,              \* dev->config[0..255]
    wmask,               \* dev->wmask[0..255]
    cmask,               \* dev->cmask[0..255]
    nResets,             \* system resets so far
    nAccess,             \* guest accesses to the short-form window so far
    lastOp,              \* the last operation on the bridge and what it saw
    \* ---- interrupt router (ls7a.c) ----
    irqLast,             \* the last call of pci_ls7a_map_irq and its result
    irqPrev,             \* the call before it, when for the same slot and pin
    \* ---- machine initialisation and boot parameters (mips_loongson3.c) ----
    bootPc,              \* where mips_loongson3_init stands
    machine,             \* MachineState: what the command line configured
    loaderparams,        \* static struct _loaderparams
    initrd,              \* load_kernel's initrd_offset, initrd_size, kernel_entry
    ret,                 \* set_prom_bootparam's ret
    parg_env,            \* the pointer words written at the head of params_buf
    environ,             \* the process environment (setenv)
    boot_params_buf,     \* as an offset into params_buf
    boot_params_p,       \* as an offset into params_buf
    p,                   \* init_loongson_params's p, as an offset into params_buf
    lp,                  \* struct loongson_params inside boot_params
    chain,               \* the records placed so far: name, offset in params_buf, size
    emap,                \* struct efi_memory_map_loongson as filled
    cpuinfo,             \* struct efi_cpuinfo_loongson as filled
    rom,                 \* the blobs registered with rom_add_blob_fixed
    exitReason,          \* why the process ended, "" while it runs
    \* ---- the virtual CPUs and the machine at run time ----
    cpus,                \* per CPU: a0..a2 (gpr 4..6), PC, CP0_Status BEV and ERL
    lastReset,           \* the CPU whose reset handler ran last, 0 if another step did
    nRun,                \* run-time steps taken so far
    \* ---- the bridge's other windows and the machine's memory map ----
    regs,                \* s->regs[0..NR_REGS-1]
    lastReg,             \* the last access to the internal register window
    pciCalls,            \* the calls of pci_data_read / pci_data_write so far
    extLast,             \* the last access to the extended configuration window
    memmap,              \* the regions mapped into the system address space
    nMmio                \* accesses to these windows so far

pmVars == <<pmResetRequests, pmShutdownRequests, pmLog, pmReadVal>>
bridgeVars == <<config, wmask, cmask, nResets, nAccess, lastOp>>
irqVars == <<irqLast, irqPrev>>
bootVars == <<bootPc, machine, loaderparams, initrd, ret, parg_env, environ,
              boot_params_buf, boot_params_p, p, lp, chain, emap, cpuinfo,
              rom, exitReason>>
runVars == <<cpus, lastReset, nRun>>
mmioVars == <<regs, lastReg, pciCalls, extLast, memmap, nMmio>>
vars == <<pmVars, bridgeVars, irqVars, bootVars, runVars, mmioVars>>

(***************************************************************************)
(* Bytes and bit operations                                                *)
(***************************************************************************)
Byte == 0..255

RECURSIVE BitAnd(_, _)
BitAnd(a, b) ==
    IF a = 0 \/ b = 0 THEN 0
    ELSE (a % 2) * (b % 2) + 2 * BitAnd(a \div 2, b \div 2)

RECURSIVE BitOr(_, _)
BitOr(a, b) ==
    IF a = 0 THEN b
    ELSE IF b = 0 THEN a
    ELSE (IF a % 2 = 1 \/ b % 2 = 1 THEN 1 ELSE 0)
         + 2 * BitOr(a \div 2, b \div 2)

Not8(a) == 255 - a

\* n bytes of v, lowest first (v < 2^31)
LE(v, n) == [i \in 1..n |-> (v \div (256 ^ (i - 1))) % 256]
AndBytes(a, b) == [i \in 1..Len(a) |-> BitAnd(a[i], b[i])]
OrBytes(a, b)  == [i \in 1..Len(a) |-> BitOr(a[i], b[i])]
NotBytes(a)    == [i \in 1..Len(a) |-> Not8(a[i])]
Ones(n)  == [i \in 1..n |-> 255]
Zeros(n) == [i \in 1..n |-> 0]

\* the n bytes of array a (a function on 0..255) starting at offset off
Bytes(a, off, n) == [i \in 1..n |-> a[off + i - 1]]
\* array a with bytes bs stored from offset off on
Store(a, off, bs) ==
    [k \in DOMAIN a |->
        IF k >= off /\ k < off + Len(bs) THEN bs[k - off + 1] ELSE a[k]]

(***************************************************************************)
(* Power-management trap                                                   *)
(***************************************************************************)
PM_MMIO_SIZE == \H100
PM_CNTL_MODE == \H10

MaxPmOps == 4
PmAddrs == {0, PM_CNTL_MODE, PM_CNTL_MODE + 4}
PmVals  == {0, 1, \HFF, \H100}

\* the same handler without the offset test
loongson3_pm_write_wrong_offset(addr, val) ==
    IF val = 0 THEN "reset"
    ELSE IF val = \HFF THEN "shutdown"
    ELSE "none"

\* loongson3_pm_write: the request raised, "reset", "shutdown" or "none"
loongson3_pm_write(addr, val) ==
    IF addr # PM_CNTL_MODE THEN "none"
    ELSE IF val = 0 THEN "reset"
    ELSE IF val = \HFF THEN "shutdown"
    ELSE "none"

loongson3_pm_read(addr) == 0

PmWrite(addr, val) ==
    /\ Len(pmLog) < MaxPmOps
    /\ LET req == loongson3_pm_write(addr, val) IN
        /\ pmResetRequests' = pmResetRequests + (IF req = "reset" THEN 1 ELSE 0)
        /\ pmShutdownRequests' =
               pmShutdownRequests + (IF req = "shutdown" THEN 1 ELSE 0)
    /\ pmLog' = Append(pmLog, [op |-> "write", addr |-> addr, val |-> val])
    /\ UNCHANGED pmReadVal

PmRead(addr) ==
    /\ Len(pmLog) < MaxPmOps
    /\ pmReadVal' = loongson3_pm_read(addr)
    /\ pmLog' = Append(pmLog, [op |-> "read", addr |-> addr, val |-> 0])
    /\ UNCHANGED <<pmResetRequests, pmShutdownRequests>>

PmInit ==
    /\ pmResetRequests = 0
    /\ pmShutdownRequests = 0
    /\ pmLog = <<>>
    /\ pmReadVal = 0

(***************************************************************************)
(* PCI core as the bridge function uses it (hw/pci/pci.c, pci_regs.h).     *)
(* Standard configuration-space semantics: a write changes exactly the     *)
(* bits its write mask allows, and clears write-1-to-clear bits.           *)
(***************************************************************************)
PCI_COMMAND           == \H04
PCI_STATUS            == \H06
PCI_CACHE_LINE_SIZE   == \H0C
PCI_BASE_ADDRESS_0    == \H10
PCI_BASE_ADDRESS_1    == \H14
PCI_BASE_ADDRESS_2    == \H18
PCI_BASE_ADDRESS_3    == \H1C
PCI_BASE_ADDRESS_4    == \H20
PCI_BASE_ADDRESS_5    == \H24
PCI_CARDBUS_CIS       == \H28
PCI_INTERRUPT_LINE    == \H3C
PCI_INTERRUPT_PIN     == \H3D
PCI_CONFIG_HEADER_SIZE == \H40
PCI_CONFIG_SPACE_SIZE == \H100

ConfigOffsets == 0..(PCI_CONFIG_SPACE_SIZE - 1)
AllZero == [k \in ConfigOffsets |-> 0]

\* pci_init_w1cmask: the error bits of the status register
w1cmask == Store(AllZero, PCI_STATUS, LE(\HF900, 2))

\* pci_init_wmask: command bits, cache line size, interrupt line, and every
\* device-specific byte from 0x40 on
pci_init_wmask ==
    [k \in ConfigOffsets |->
        IF k >= PCI_CONFIG_HEADER_SIZE THEN \HFF
        ELSE IF k = PCI_CACHE_LINE_SIZE \/ k = PCI_INTERRUPT_LINE THEN \HFF
        ELSE IF k = PCI_COMMAND THEN \H07
        ELSE IF k = PCI_COMMAND + 1 THEN \H05
        ELSE 0]

\* pci_init_cmask
pci_init_cmask ==
    Store(Store(Store(Store(Store(Store(AllZero,
        \H00, LE(\HFFFF, 2)), \H02, LE(\HFFFF, 2)), \H06, LE(\H0010, 2)),
        \H08, Ones(4)), \H0E, Ones(1)), \H34, Ones(1))

\* do_pci_register_device with the identifiers of ls7a_class_init, then
\* ls7a_realize's pci_config_set_prog_interface(dev->config, 0x00)
ls7a_class_init ==
    [vendor_id |-> \H0014, device_id |-> \H7A00, revision |-> \H00,
     class_id |-> \H0600]

ls7a_realize ==
    LET k == ls7a_class_init
        c1 == Store(AllZero, \H00, LE(k.vendor_id, 2))
        c2 == Store(c1, \H02, LE(k.device_id, 2))
        c3 == Store(c2, \H08, LE(k.revision, 1))
        c4 == Store(c3, \H0A, LE(k.class_id, 2))
        c5 == Store(c4, \H2C, LE(\H1AF4, 2))   \* default subsystem vendor
        c6 == Store(c5, \H2E, LE(\H1100, 2))   \* default subsystem id
        c7 == Store(c6, \H09, LE(\H00, 1))
    IN [config |-> c7, wmask |-> pci_init_wmask, cmask |-> pci_init_cmask]

\* pci_default_write_config(d, addr, val, l); val is l bytes, lowest first
WriteByte(d, k, v) ==
    LET wm == d.wmask[k]
        c1 == BitOr(BitAnd(d.config[k], Not8(wm)), BitAnd(v, wm))
    IN BitAnd(c1, Not8(BitAnd(v, w1cmask[k])))

RECURSIVE WriteBytes(_, _, _, _, _)
WriteBytes(d, c, addr, val, i) ==
    IF i > Len(val) THEN c
    ELSE WriteBytes(d, [c EXCEPT ![addr + i - 1] = WriteByte(d, addr + i - 1, val[i])],
                    addr, val, i + 1)

pci_default_write_config(d, addr, val, l) ==
    WriteBytes(d, d.config, addr, SubSeq(val, 1, l), 1)

\* pci_default_read_config(d, addr, len)
pci_default_read_config(d, addr, len) == Bytes(d.config, addr, len)

\* pci_do_device_reset: clears the writable command and status bits, the
\* cache line size and the interrupt line; nothing from 0x40 on
pci_do_device_reset(d) ==
    LET clr(k) == BitAnd(d.config[k], Not8(BitOr(d.wmask[k], w1cmask[k])))
    IN [d EXCEPT !.config =
         [d.config EXCEPT ![PCI_COMMAND] = clr(PCI_COMMAND),
                          ![PCI_COMMAND + 1] = clr(PCI_COMMAND + 1),
                          ![PCI_STATUS] = clr(PCI_STATUS),
                          ![PCI_STATUS + 1] = clr(PCI_STATUS + 1),
                          ![PCI_CACHE_LINE_SIZE] = 0,
                          ![PCI_INTERRUPT_LINE] = 0]]

(***************************************************************************)
(* LS7A bridge function                                                    *)
(***************************************************************************)
LS7A_PCICONFIG_SIZE == \H100

\* C's int -1, complemented, then converted to uint64_t
SignExtend64(b4) == b4 \o [i \in 1..4 |-> IF b4[4] >= 128 THEN 255 ELSE 0]

ls7a_reset_wmask_all_ones == SignExtend64(Ones(4))

\* wmask = ~(-1);
ls7a_reset_wmask == SignExtend64(NotBytes(Ones(4)))

\* wmask & 0xff, wmask & 0xffff, wmask & 0xffffffff as stored by pci_set_*
WmaskAnd(n) == AndBytes(SubSeq(ls7a_reset_wmask, 1, n), Ones(n))

\* the stores of ls7a_reset, in program order: <<array, offset, bytes>>
ls7a_reset_stores == <<
    <<"config", \H00, LE(\H0014, 2)>>,
    <<"wmask",  \H00, WmaskAnd(2)>>,
    <<"cmask",  \H00, LE(\HFFFF, 2)>>,
    <<"config", \H02, LE(\H7A00, 2)>>,
    <<"wmask",  \H02, WmaskAnd(2)>>,
    <<"cmask",  \H02, LE(\HFFFF, 2)>>,
    <<"config", \H04, LE(\H0000, 2)>>,
    <<"config", \H06, LE(\H0010, 2)>>,
    <<"wmask",  \H06, WmaskAnd(2)>>,
    <<"cmask",  \H06, LE(\HFFFF, 2)>>,
    <<"config", \H08, LE(\H00, 1)>>,
    <<"wmask",  \H08, WmaskAnd(1)>>,
    <<"cmask",  \H08, LE(\HFF, 1)>>,
    <<"config", \H09, LE(\H00, 1)>>,
    <<"wmask",  \H09, WmaskAnd(1)>>,
    <<"cmask",  \H09, LE(\HFF, 1)>>,
    <<"config", \H0A, LE(\H00, 1)>>,
    <<"wmask",  \H0A, WmaskAnd(1)>>,
    <<"cmask",  \H0A, LE(\HFF, 1)>>,
    <<"config", \H0B, LE(\H06, 1)>>,
    <<"wmask",  \H0B, WmaskAnd(1)>>,
    <<"cmask",  \H0B, LE(\HFF, 1)>>,
    <<"config", \H0C, LE(\H00, 1)>>,
    <<"wmask",  \H0C, WmaskAnd(1)>>,
    <<"cmask",  \H0C, LE(\HFF, 1)>>,
    <<"config", \H0E, LE(\H80, 1)>>,
    <<"wmask",  \H0E, WmaskAnd(1)>>,
    <<"cmask",  \H0E, LE(\HFF, 1)>>,
    <<"config", PCI_BASE_ADDRESS_0, LE(\H0, 4)>>,
    <<"wmask",  PCI_BASE_ADDRESS_0, WmaskAnd(4)>>,
    <<"cmask",  PCI_BASE_ADDRESS_0, Ones(4)>>,
    <<"config", PCI_BASE_ADDRESS_1, LE(\H0, 4)>>,
    <<"wmask",  PCI_BASE_ADDRESS_1, WmaskAnd(4)>>,
    <<"cmask",  PCI_BASE_ADDRESS_1, Ones(4)>>,
    <<"config", PCI_BASE_ADDRESS_2, LE(\H0, 4)>>,
    <<"wmask",  PCI_BASE_ADDRESS_2, WmaskAnd(4)>>,
    <<"cmask",  PCI_BASE_ADDRESS_2, Ones(4)>>,
    <<"config", PCI_BASE_ADDRESS_3, LE(\H00000004, 4)>>,
    <<"wmask",  PCI_BASE_ADDRESS_3, WmaskAnd(4)>>,
    <<"cmask",  PCI_BASE_ADDRESS_3, Ones(4)>>,
    <<"config", PCI_BASE_ADDRESS_4, LE(\H0, 4)>>,
    <<"wmask",  PCI_BASE_ADDRESS_4, WmaskAnd(4)>>,
    <<"cmask",  PCI_BASE_ADDRESS_4, Ones(4)>>,
    <<"config", PCI_BASE_ADDRESS_5, LE(\H0, 4)>>,
    <<"wmask",  PCI_BASE_ADDRESS_5, WmaskAnd(4)>>,
    <<"cmask",  PCI_BASE_ADDRESS_5, Ones(4)>>,
    <<"config", PCI_CARDBUS_CIS, LE(\H0000, 2)>>,
    <<"config", \H2C, LE(\H0014, 2)>>,
    <<"wmask",  \H2C, WmaskAnd(2)>>,
    <<"cmask",  \H2C, LE(\HFFFF, 2)>>,
    <<"config", \H2E, LE(\H7A00, 2)>>,
    <<"wmask",  \H2E, WmaskAnd(2)>>,
    <<"cmask",  \H2E, LE(\HFFFF, 2)>>,
    <<"config", \H34, LE(\H40, 1)>>,
    <<"wmask",  \H34, WmaskAnd(1)>>,
    <<"cmask",  \H34, LE(\HFF, 1)>>,
    <<"config", \H3C, LE(\H00, 1)>>,
    <<"config", \H3D, LE(\H00, 1)>>,
    <<"wmask",  \H3D, WmaskAnd(1)>>,
    <<"config", \H3E, LE(\H0000, 2)>>,
    <<"config", \H4C, LE(\H60, 1)>>,
    <<"wmask",  \H4C, WmaskAnd(1)>> >>

\* what the stores leave at each offset of array `name`: the byte of the last
\* store that covers the offset, or -1 where no store touches the array
StoreImage(name, stores) ==
    [k \in ConfigOffsets |->
        LET hits == {i \in 1..Len(stores) :
                        /\ stores[i][1] = name
                        /\ k >= stores[i][2]
                        /\ k < stores[i][2] + Len(stores[i][3])}
        IN IF hits = {} THEN -1
           ELSE LET i == CHOOSE j \in hits : \A h \in hits : h <= j
                IN stores[i][3][k - stores[i][2] + 1]]

Overlay(a, image) == [k \in ConfigOffsets |-> IF image[k] = -1 THEN a[k] ELSE image[k]]

ls7a_reset_config == StoreImage("config", ls7a_reset_stores)
ls7a_reset_wmasks == StoreImage("wmask", ls7a_reset_stores)
ls7a_reset_cmasks == StoreImage("cmask", ls7a_reset_stores)

\* the reset handler with the store of BAR3's value left out
ls7a_reset_config_without_bar3 ==
    StoreImage("config",
        SelectSeq(ls7a_reset_stores,
                  LAMBDA st : ~(st[1] = "config" /\ st[2] = PCI_BASE_ADDRESS_3)))

ls7a_reset_without_bar3(d) ==
    [config |-> Overlay(d.config, ls7a_reset_config_without_bar3),
     wmask  |-> Overlay(d.wmask, ls7a_reset_wmasks),
     cmask  |-> Overlay(d.cmask, ls7a_reset_cmasks)]

\* ls7a_reset: every listed byte is overwritten, every other byte is kept
ls7a_reset(d) ==
    [config |-> Overlay(d.config, ls7a_reset_config),
     wmask  |-> Overlay(d.wmask, ls7a_reset_wmasks),
     cmask  |-> Overlay(d.cmask, ls7a_reset_cmasks)]

\* ls7a_pciconf_readl: always a 4-byte read of the bridge's own function
ls7a_pciconf_readl(d, addr) == pci_default_read_config(d, addr, 4)

\* the write handler passing a length of 2 to config_write
ls7a_pciconf_writel_short(d, addr, val) ==
    pci_default_write_config(d, addr, val, 2)

\* ls7a_pciconf_writel: always a 4-byte write; returns the new config array
ls7a_pciconf_writel(d, addr, val) ==
    pci_default_write_config(d, addr, val, 4)

MaxResets == 2
MaxAccess == 2
MaxDevRegs == 2

\* the window takes aligned 4-byte accesses only (ls7a_pciconf_ops.valid)
WindowAddrs == {a \in 0..(LS7A_PCICONFIG_SIZE - 1) : a % 4 = 0}
\* the registers the guest accesses: the IDs, command/status, BAR0, BAR3,
\* BAR5, the interrupt line/pin dword and the first MaxDevRegs
\* device-specific dwords
GuestAddrs ==
    {0, PCI_COMMAND, PCI_BASE_ADDRESS_0, PCI_BASE_ADDRESS_3, PCI_BASE_ADDRESS_5,
     PCI_INTERRUPT_LINE}
    \cup {a \in WindowAddrs : /\ a >= PCI_CONFIG_HEADER_SIZE
                              /\ a < PCI_CONFIG_HEADER_SIZE + 4 * MaxDevRegs}
WriteVals == {Ones(4), <<\H78, \H56, \H34, \H12>>}

Dev == [config |-> config, wmask |-> wmask, cmask |-> cmask]
\* op: the operation; addr, val: its arguments; orig: the dword at addr before
\* it; rd: what a read returned; afterOnes: the read directly follows a write
\* of all-ones to the same register, whose dword before that write was worig
NoOp == [op |-> "none", addr |-> 0, val |-> Zeros(4), orig |-> Zeros(4),
         rd |-> Zeros(4), afterOnes |-> FALSE, worig |-> Zeros(4)]

\* the bridge not built, for the specifications of the other parts
BridgeIdle ==
    /\ config = <<>>
    /\ wmask = <<>>
    /\ cmask = <<>>
    /\ nResets = 0
    /\ nAccess = 0
    /\ lastOp = NoOp

BridgeInit ==
    /\ config = ls7a_realize.config
    /\ wmask = ls7a_realize.wmask
    /\ cmask = ls7a_realize.cmask
    /\ nResets = 0
    /\ nAccess = 0
    /\ lastOp = NoOp

\* qemu_system_reset: the handler ls7a_realize registered, then the bus's
\* reset of the function
SystemReset ==
    /\ nResets < MaxResets
    /\ LET d == pci_do_device_reset(ls7a_reset(Dev)) IN
        /\ config' = d.config
        /\ wmask' = d.wmask
        /\ cmask' = d.cmask
    /\ nResets' = nResets + 1
    /\ lastOp' = [NoOp EXCEPT !.op = "reset"]
    /\ UNCHANGED nAccess

\* a guest store to the short-form configuration window
PciConfWrite(addr, val) ==
    /\ nResets >= 1
    /\ nAccess < MaxAccess
    /\ config' = ls7a_pciconf_writel(Dev, addr, val)
    /\ lastOp' = [NoOp EXCEPT !.op = "write", !.addr = addr, !.val = val,
                               !.orig = Bytes(config, addr, 4)]
    /\ nAccess' = nAccess + 1
    /\ UNCHANGED <<wmask, cmask, nResets>>

\* a guest load from the short-form configuration window
PciConfRead(addr) ==
    /\ nResets >= 1
    /\ nAccess < MaxAccess
    /\ LET back == /\ lastOp.op = "write"
                    /\ lastOp.addr = addr
                    /\ lastOp.val = Ones(4)
       IN lastOp' = [NoOp EXCEPT !.op = "read", !.addr = addr,
                                 !.orig = Bytes(config, addr, 4),
                                 !.rd = ls7a_pciconf_readl(Dev, addr),
                                 !.afterOnes = back,
                                 !.worig = IF back THEN lastOp.orig ELSE Zeros(4)]
    /\ nAccess' = nAccess + 1
    /\ UNCHANGED <<config, wmask, cmask, nResets>>

(***************************************************************************)
(* Interrupt router                                                        *)
(***************************************************************************)
\* static int virq[] = {3, 4, 5, 6, 7, 9, 10, 11};  (1-based here)
virq == <<3, 4, 5, 6, 7, 9, 10, 11>>

\* the router indexing the table by the interrupt-number argument
pci_ls7a_map_irq_by_irq_num(devfn, pin, irq_num) ==
    LET slot == devfn \div 8
    IN virq[((irq_num + slot) % 8) + 1]

\* pci_ls7a_map_irq(d, irq_num), with d->devfn and d->config[PCI_INTERRUPT_PIN]
pci_ls7a_map_irq(devfn, pin, irq_num) ==
    LET slot == devfn \div 8     \* d->devfn >> 3
    IN virq[((pin + slot) % 8) + 1]

Slots == 0..31
Pins == 1..4
\* functions 0 and 7 of every slot
Devfns == {8 * sl + fn : sl \in Slots, fn \in {0, 7}}
IrqNums == {0, 3}

NoCall == [devfn |-> 0, pin |-> 0, irq_num |-> 0, line |-> 0]

NoRepeat == [same |-> FALSE, irq_num |-> 0, line |-> 0]

IrqInit ==
    /\ irqLast = NoCall
    /\ irqPrev = NoRepeat

\* the PCI core asks for the routing of a device's interrupt pin
MapIrq(devfn, pin, irq_num) ==
    /\ irqLast' = [devfn |-> devfn, pin |-> pin, irq_num |-> irq_num,
                   line |-> pci_ls7a_map_irq(devfn, pin, irq_num)]
    /\ irqPrev' = IF irqLast.devfn \div 8 = devfn \div 8 /\ irqLast.pin = pin
                  THEN [same |-> TRUE, irq_num |-> irqLast.irq_num,
                        line |-> irqLast.line]
                  ELSE NoRepeat

(***************************************************************************)
(* Machine initialisation, kernel loader and boot-parameter builder        *)
(*                                                                         *)
(* Host pointers into params_buf are kept as offsets from params_buf; the  *)
(* blob is registered at BOOTPARAM_PHYADDR, so the guest-physical address  *)
(* of offset o is BOOTPARAM_PHYADDR + o.  The host is 64-bit Linux (LP64). *)
(***************************************************************************)
MiB == 2 ^ 20
INITRD_OFFSET     == \H03EA0000
BOOTPARAM_PHYADDR == \H0FF00000
PARAMS_SIZE       == \H100000
INITRD_PAGE_SIZE  == 2 ^ 16      \* ~INITRD_PAGE_MASK + 1

\* the same rounding to 32 bytes
align_to_32(x) == (x + 31) - ((x + 31) % 32)

\* #define align(x) (((x) + 63) & ~63)
align(x) == (x + 63) - ((x + 63) % 64)

\* sizeof of the records, field by field
\* struct mem_map is not itself packed: 4 + 4 + 8 + 4 and 4 bytes of padding
Sizeof_mem_map == 4 + 4 + 8 + 4 + 4
Sizeof_efi_memory_map_loongson == 2 + 4 + 4 + 128 * Sizeof_mem_map
Sizeof_efi_cpuinfo_loongson == 2 + 4 + 4 + 4 + 2 + 2 + 4 + 4 + 64
Sizeof_uart_device == 4 + 4 + 4 + 8
Sizeof_sensor_device == 32 + 64 + 4 + 4 + 4 + 4 + 8
Sizeof_system_loongson ==
    2 + 4 + 4 + 4 + 64 * Sizeof_uart_device + 4 + 64 * Sizeof_sensor_device
    + 1 + 32 + 8 + 1 + 32 + 8 + 8 + 8
Sizeof_irq_source_routing_table ==
    2 + 2 + 2 + 2 + 4 + 4 + 4 + 8 + 8 + 4 + 8 + 8 + 8 + 8 + 8 + 2 + 2
Sizeof_interface_info == 2 + 2 + 1 + 64
\* not packed: 8 + 8 + 64 + 4 and 4 bytes of padding
Sizeof_resource_loongson == 8 + 8 + 64 + 4 + 4
\* name[64], num_resources and 4 bytes of padding, resource[128]
Sizeof_board_devices == 64 + 4 + 4 + 128 * Sizeof_resource_loongson
\* vers, special_name[64], 2 bytes of padding, type, resource[128]
Sizeof_loongson_special_attribute ==
    2 + 64 + 2 + 4 + 128 * Sizeof_resource_loongson
Sizeof_loongson_params == 7 * 8
\* vers and 6 bytes of padding, vga_bios, lp
Sizeof_smbios_tables == 2 + 6 + 8 + Sizeof_loongson_params
Sizeof_efi_loongson == 8 + 8 + 8 + Sizeof_smbios_tables + 8 + 8
Sizeof_efi_reset_system_t == 5 * 8
Sizeof_boot_params == Sizeof_efi_loongson + Sizeof_efi_reset_system_t
\* offsetof(struct boot_params, efi.smbios.lp)
Offsetof_lp == (8 + 8 + 8) + (2 + 6 + 8)

\* the records in the order init_loongson_params places them, each with the
\* field of struct loongson_params that receives its offset
RecordOrder == <<
    [name |-> "memory_map", field |-> "memory_offset",
     size |-> Sizeof_efi_memory_map_loongson],
    [name |-> "cpu_info", field |-> "cpu_offset",
     size |-> Sizeof_efi_cpuinfo_loongson],
    [name |-> "system", field |-> "system_offset",
     size |-> Sizeof_system_loongson],
    [name |-> "irq_source", field |-> "irq_offset",
     size |-> Sizeof_irq_source_routing_table],
    [name |-> "interface", field |-> "interface_offset",
     size |-> Sizeof_interface_info],
    [name |-> "board_devices", field |-> "boarddev_table_offset",
     size |-> Sizeof_board_devices],
    [name |-> "special", field |-> "special_offset",
     size |-> Sizeof_loongson_special_attribute] >>

\* ---- inputs ----
MaxCmdlineLen == 131071   \* one argv string of a Linux host: MAX_ARG_STRLEN - 1
MaxRamMiB == 2046         \* RAM sizes are kept below 2^31 bytes
RamSizes ==
    {128 * MiB, 256 * MiB - 1, 256 * MiB, 256 * MiB + 1, 257 * MiB - 1,
     257 * MiB, 512 * MiB, 560 * MiB, MaxRamMiB * MiB}
CmdlineLens == {0, 1, 13, 45, 77, 218, 237, 238, 1000, MaxCmdlineLen}
SmpCpus == {1, 6}
KernelHighs == {\H00A01234, \H03F00001}
ImageSizes == {-1, 0, 4096, 200 * MiB, 1024 * MiB}
HostFreqs == {0, 2000000}
KernelEntry == \H00400000

\* ---- pure parts ----
RECURSIVE Decimal(_)
\* the digits "%ld" prints for n >= 0
Decimal(n) == IF n < 10 THEN <<n>> ELSE Append(Decimal(n \div 10), n % 10)

\* init_memory_map with the low entry not reduced by 16
init_memory_map_no_reserve(ram_size) ==
    [nr_map |-> 2, mem_freq |-> 300000000,
     map |-> <<
        [node_id |-> 0, mem_type |-> 1, mem_start |-> 0,
         mem_size |-> (IF ram_size > \H10000000 THEN 256 ELSE ram_size \div MiB)],
        [node_id |-> 0, mem_type |-> 2, mem_start |-> "0x90000000",
         mem_size |-> IF ram_size > \H10000000
                      THEN (ram_size \div MiB) - 256 ELSE 0] >>]

\* init_memory_map; map is 1-based here, map[1] is the C map[0]
init_memory_map(ram_size) ==
    [nr_map |-> 2, mem_freq |-> 300000000,
     map |-> <<
        [node_id |-> 0, mem_type |-> 1, mem_start |-> 0,
         mem_size |-> (IF ram_size > \H10000000 THEN 256 ELSE ram_size \div MiB)
                      - 16],
        [node_id |-> 0, mem_type |-> 2, mem_start |-> "0x90000000",
         mem_size |-> IF ram_size > \H10000000
                      THEN (ram_size \div MiB) - 256 ELSE 0] >>]

\* init_cpu_info, given what get_host_cpu_freq returned
init_cpu_info(freq, smp_cpus) ==
    [cputype |-> \H300, processor_id |-> \H14C000,
     cpu_clock_freq |-> IF freq = 0 THEN 400000000 ELSE freq,
     cpu_startup_core_id |-> 0, nr_cpus |-> smp_cpus,
     total_node |-> (smp_cpus + 3) \div 4]

\* the memsize text taken from the memory map's low entry
memenv_from_map(ram_size) ==
    Decimal((IF ram_size > \H10000000 THEN 256 ELSE ram_size \div MiB) - 16)

\* sprintf(memenv, "%ld", ...): the text of the memsize variable
memenv(ram_size) ==
    Decimal(IF ram_size > \H10000000 THEN 256 ELSE ram_size \div MiB)

\* sprintf(highmemenv, "%ld", ...): the text of the highmemsize variable
highmemenv(ram_size) ==
    Decimal(IF ram_size > \H10000000 THEN (ram_size \div MiB) - 256 ELSE 0)

\* snprintf's return value for argv[1]: the length of the whole text, whether
\* or not it fits; "rd_start=0x%016lx rd_size=%li %s" or "%s"
Argv1Len(initrd_size, cmdline_len) ==
    IF initrd_size > 0
    THEN 11 + 16 + 9 + Len(Decimal(initrd_size)) + 1 + cmdline_len
    ELSE cmdline_len

\* the characters snprintf(buf, size, ...) stores before the terminating NUL
Stored(len, size) == IF len < size - 1 THEN len ELSE size - 1

\* a word of parg_env: BOOTPARAM_ADDR + off
BootparamAddr(off) == [base |-> "BOOTPARAM_ADDR", off |-> off]
\* the upper 16 bits of BOOTPARAM_ADDR (0x8ff00000); its lower 16 bits are 0
BOOTPARAM_ADDR_hi == \H8FF0
\* the unsigned int a store through parg_env leaves in the buffer for the
\* word w, as its upper and lower 16 bits: (BOOTPARAM_ADDR + off) % 2^32
WordOf(w) == [hi |-> (BOOTPARAM_ADDR_hi + w.off \div 65536) % 65536,
              lo |-> w.off % 65536]
\* 0xffffffff80000000ULL + x
Kseg0(x) == [base |-> "0xffffffff80000000", off |-> x]

NoLp == [memory_offset |-> 0, cpu_offset |-> 0, system_offset |-> 0,
         irq_offset |-> 0, interface_offset |-> 0, special_offset |-> 0,
         boarddev_table_offset |-> 0]
NoMachine == [ram_size |-> 0, kernel |-> FALSE, cmdline_len |-> 0,
              initrd |-> FALSE, smp_cpus |-> 0]
NoLoaderparams == [ram_size |-> 0, kernel_filename |-> FALSE,
                   kernel_cmdline_len |-> 0, initrd_filename |-> FALSE,
                   kernel_entry |-> 0, a0 |-> 0, a1 |-> 0, a2 |-> 0]

\* load_kernel's locals before it runs; image: what get_image_size
\* returned; loaded, load_at: whether and where load_image_targphys was called
NoInitrd == [offset |-> 0, size |-> 0, kernel_entry |-> 0, kernel_high |-> 0,
             image |-> 0, loaded |-> FALSE, load_at |-> 0]

\* everything of the boot path zero, as static storage starts
BootZero ==
    /\ loaderparams = NoLoaderparams
    /\ initrd = NoInitrd
    /\ ret = 0
    /\ parg_env = <<>>
    /\ environ = <<>>
    /\ boot_params_buf = 0
    /\ boot_params_p = 0
    /\ p = 0
    /\ lp = NoLp
    /\ chain = <<>>
    /\ emap = <<>>
    /\ cpuinfo = <<>>
    /\ rom = {}
    /\ exitReason = ""

\* the boot path standing still, for the specifications of the other parts
BootIdle == bootPc = "idle" /\ machine = NoMachine /\ BootZero

BootInit ==
    /\ bootPc = "init"
    /\ machine \in [ram_size : RamSizes, kernel : BOOLEAN,
                    cmdline_len : CmdlineLens, initrd : BOOLEAN,
                    smp_cpus : SmpCpus]
    /\ BootZero

\* ---- the virtual CPUs ----
\* a 64-bit register value, base + off
Word(n) == [base |-> "0", off |-> n]
\* the MIPS reset vector 0xffffffffbfc00000, as a signed number
ResetVector == 0 - \H40400000

\* cpu_reset: general registers cleared, PC at the reset vector, BEV and ERL set
cpu_reset == [gpr4 |-> 0, gpr5 |-> Word(0), gpr6 |-> Word(0),
              PC |-> ResetVector, BEV |-> TRUE, ERL |-> TRUE]

\* main_cpu_reset seeding the registers without the entry point
main_cpu_reset_no_pc(first, l) ==
    IF l.kernel_filename
    THEN [(IF first
           THEN [cpu_reset EXCEPT !.gpr4 = l.a0, !.gpr5 = l.a1, !.gpr6 = l.a2]
           ELSE cpu_reset) EXCEPT !.BEV = FALSE, !.ERL = FALSE]
    ELSE cpu_reset

\* main_cpu_reset seeding every CPU
main_cpu_reset_every_cpu(first, l) ==
    IF l.kernel_filename
    THEN [cpu_reset EXCEPT !.gpr4 = l.a0, !.gpr5 = l.a1, !.gpr6 = l.a2,
                           !.PC = l.kernel_entry, !.BEV = FALSE, !.ERL = FALSE]
    ELSE cpu_reset

\* main_cpu_reset: the state of the CPU when the handler returns; first:
\* cpu == MIPS_CPU(first_cpu); l: loaderparams
main_cpu_reset(first, l) ==
    IF l.kernel_filename
    THEN [(IF first
           THEN [cpu_reset EXCEPT !.gpr4 = l.a0, !.gpr5 = l.a1, !.gpr6 = l.a2,
                                  !.PC = l.kernel_entry]
           ELSE cpu_reset) EXCEPT !.BEV = FALSE, !.ERL = FALSE]
    ELSE cpu_reset

RunIdle == cpus = <<>> /\ lastReset = 0 /\ nRun = 0

Exit(reason) ==
    /\ bootPc' = "exit"
    /\ exitReason' = reason

\* mips_loongson3_init up to the choice between kernel and BIOS
MachineInit ==
    /\ bootPc = "init"
    /\ cpus' = IF machine.ram_size < 256 * \H100000
               THEN cpus
               ELSE [i \in 1..machine.smp_cpus |-> cpu_reset]
    /\ IF machine.ram_size < 256 * \H100000
       THEN Exit("Loongson-3 need at least 256MB memory")
            /\ UNCHANGED loaderparams
       ELSE IF machine.kernel
       THEN /\ loaderparams' =
                 [loaderparams EXCEPT !.ram_size = machine.ram_size,
                                      !.kernel_filename = TRUE,
                                      !.kernel_cmdline_len = machine.cmdline_len,
                                      !.initrd_filename = machine.initrd]
            /\ bootPc' = "load_kernel"
            /\ UNCHANGED exitReason
       ELSE /\ bootPc' = "bios"
            /\ UNCHANGED <<loaderparams, exitReason>>
    /\ UNCHANGED <<machine, initrd, ret, parg_env, environ, boot_params_buf,
                   boot_params_p, p, lp, chain, emap, cpuinfo, rom>>

\* the placement without the fixed minimum
initrd_offset_no_minimum(kernel_high) ==
    LET up == kernel_high + (INITRD_PAGE_SIZE - 1)
    IN up - (up % INITRD_PAGE_SIZE)

\* initrd_offset = MAX((kernel_high + ~INITRD_PAGE_MASK) & INITRD_PAGE_MASK,
\*                     INITRD_OFFSET)
initrd_offset(kernel_high) ==
    LET up == kernel_high + (INITRD_PAGE_SIZE - 1)
        page == up - (up % INITRD_PAGE_SIZE)
    IN IF page > INITRD_OFFSET THEN page ELSE INITRD_OFFSET

\* the test comparing the size alone with the RAM size
initrd_fits_by_size(offset, size, ram) == ~(size > ram)

\* the negation of initrd_offset + initrd_size > ram_size
initrd_fits(offset, size, ram) == ~(offset + size > ram)

\* load_kernel up to the call of set_prom_bootparam.  elf_ok, kernel_high:
\* load_elf; image_size: get_image_size; load_ok: load_image_targphys
LoadKernel(elf_ok, kernel_high, image_size, load_ok) ==
    /\ bootPc = "load_kernel"
    /\ LET wanted == loaderparams.initrd_filename
           size0 == IF wanted THEN image_size ELSE 0
           offset == IF wanted /\ size0 > 0 THEN initrd_offset(kernel_high) ELSE 0
           fits == initrd_fits(offset, size0, machine.ram_size)
           load == wanted /\ size0 > 0 /\ fits
           size1 == IF load THEN (IF load_ok THEN size0 ELSE -1) ELSE size0
           locals == [offset |-> offset, size |-> size1,
                      kernel_entry |-> KernelEntry, kernel_high |-> kernel_high,
                      image |-> size0, loaded |-> load,
                      load_at |-> IF load THEN offset ELSE 0]
       IN IF ~elf_ok
          THEN Exit("could not load kernel") /\ UNCHANGED initrd
          ELSE /\ initrd' = locals
               /\ IF wanted /\ size0 > 0 /\ ~fits
                  THEN Exit("memory too small for initial ram disk")
                  ELSE IF wanted /\ size1 = -1
                  THEN Exit("could not load initial ram disk")
                  ELSE bootPc' = "set_prom" /\ UNCHANGED exitReason
    /\ UNCHANGED <<machine, loaderparams, ret, parg_env, environ,
                   boot_params_buf, boot_params_p, p, lp, chain, emap, cpuinfo,
                   rom>>

\* set_prom_bootparam up to the call of init_boot_param: the argument vector,
\* the two environment variables, and where the boot_params start
SetPromArgv ==
    /\ bootPc = "set_prom"
    /\ LET ret0 == (3 + 1) * 4
           ret1 == ret0 + (1 + 1)     \* snprintf(..., "g") returns 1
           len1 == Argv1Len(initrd.size, loaderparams.kernel_cmdline_len)
           ret2 == ret1 + (1 + len1)
           ret3 == (ret2 + 32) - ((ret2 + 32) % 32)    \* (ret + 32) & ~31
       IN /\ parg_env' =
                [words |-> <<BootparamAddr(ret0), BootparamAddr(ret1),
                             BootparamAddr(4 * ret2)>>,
                 arg0 |-> [at |-> ret0, stored |-> Stored(1, 256 - ret0)],
                 arg1 |-> [at |-> ret1, len |-> len1,
                           stored |-> Stored(len1, 256 - ret1)]]
          /\ environ' = [memsize |-> memenv(loaderparams.ram_size),
                          highmemsize |-> highmemenv(loaderparams.ram_size)]
          /\ ret' = ret3
          /\ boot_params_buf' = ret3
          /\ boot_params_p' = ret3 + align(Sizeof_boot_params)
          \* init_loongson_params: void *p = boot_params_p;
          /\ p' = ret3 + align(Sizeof_boot_params)
    /\ bootPc' = "memory_map"
    /\ UNCHANGED <<machine, loaderparams, initrd, lp, chain, emap, cpuinfo,
                   rom, exitReason>>

\* the same step taking the offset from the start of boot_params
PlaceRecord_from_boot_params(i) ==
    LET r == RecordOrder[i]
    IN /\ lp' = [lp EXCEPT ![r.field] = p - boot_params_buf]
       /\ chain' = Append(chain, [name |-> r.name, at |-> p, size |-> r.size])
       /\ p' = p + align(r.size)

\* the same step advancing p by the unaligned size
PlaceRecord_unaligned(i) ==
    LET r == RecordOrder[i]
        lpAddr == boot_params_buf + Offsetof_lp
    IN /\ lp' = [lp EXCEPT ![r.field] = p - lpAddr]
       /\ chain' = Append(chain, [name |-> r.name, at |-> p, size |-> r.size])
       /\ p' = p + r.size

\* one step of init_loongson_params: the record is built at p, its offset
\* from lp goes into lp's field, and p moves on by the aligned size
PlaceRecord(i) ==
    LET r == RecordOrder[i]
        lpAddr == boot_params_buf + Offsetof_lp
    IN /\ lp' = [lp EXCEPT ![r.field] = p - lpAddr]
       /\ chain' = Append(chain, [name |-> r.name, at |-> p, size |-> r.size])
       /\ p' = p + align(r.size)

InitMemoryMap ==
    /\ bootPc = "memory_map"
    /\ emap' = init_memory_map(loaderparams.ram_size)
    /\ PlaceRecord(1)
    /\ bootPc' = "cpu_info"
    /\ UNCHANGED <<machine, loaderparams, initrd, ret, parg_env, environ,
                   boot_params_buf, boot_params_p, cpuinfo, rom, exitReason>>

\* init_cpu_info.  get_host_cpu_freq returns 0 when /proc/cpuinfo cannot be
\* read and the parsed frequency when its "model name" line holds an '@';
\* otherwise it reads outside its buffer, and the process either dies or
\* goes on with whatever number came out.
InitCpuInfo(cpuinfo_file, freq) ==
    /\ bootPc = "cpu_info"
    /\ \/ /\ cpuinfo_file = "unreadable"
          /\ freq = 0
          /\ cpuinfo' = init_cpu_info(0, machine.smp_cpus)
          /\ PlaceRecord(2)
          /\ bootPc' = "system"
          /\ UNCHANGED exitReason
       \/ /\ cpuinfo_file \in {"wellformed", "malformed"}
          /\ cpuinfo' = init_cpu_info(freq, machine.smp_cpus)
          /\ PlaceRecord(2)
          /\ bootPc' = "system"
          /\ UNCHANGED exitReason
       \/ /\ cpuinfo_file = "malformed"
          /\ freq = 0
          /\ Exit("crash in get_host_cpu_freq")
          /\ UNCHANGED <<cpuinfo, lp, chain, p>>
    /\ UNCHANGED <<machine, loaderparams, initrd, ret, parg_env, environ,
                   boot_params_buf, boot_params_p, emap, rom>>

\* init_system_loongson, init_irq_source, init_interface_info,
\* board_devices_info, init_special_info: records 3 to 7
InitRecord(i, here, next) ==
    /\ bootPc = here
    /\ PlaceRecord(i)
    /\ bootPc' = next
    /\ UNCHANGED <<machine, loaderparams, initrd, ret, parg_env, environ,
                   boot_params_buf, boot_params_p, emap, cpuinfo, rom,
                   exitReason>>

InitSystemLoongson == InitRecord(3, "system", "irq_source")
InitIrqSource      == InitRecord(4, "irq_source", "interface")
InitInterfaceInfo  == InitRecord(5, "interface", "board_devices")
BoardDevicesInfo   == InitRecord(6, "board_devices", "special")
InitSpecialInfo    == InitRecord(7, "special", "finish")

\* the end of init_loongson_params (boot_params_p = p), the rest of
\* set_prom_bootparam, load_kernel's return and the BIOS blob
FinishBootParams ==
    /\ bootPc = "finish"
    /\ boot_params_p' = p
    /\ rom' = {[name |-> "params", addr |-> BOOTPARAM_PHYADDR,
                size |-> PARAMS_SIZE],
               [name |-> "bios", addr |-> \H1FC00000, size |-> 45 * 4]}
    /\ loaderparams' =
           [loaderparams EXCEPT !.a0 = 2,
                                !.a1 = Kseg0(BOOTPARAM_PHYADDR),
                                !.a2 = Kseg0(BOOTPARAM_PHYADDR + ret),
                                !.kernel_entry = initrd.kernel_entry]
    /\ bootPc' = "done"
    /\ UNCHANGED <<machine, initrd, ret, parg_env, environ, boot_params_buf,
                   p, lp, chain, emap, cpuinfo, exitReason>>

(***************************************************************************)
(* Memory map                                                              *)
(* Addresses reach beyond 31 bits (PM_MMIO_ADDR, the end of the PCI memory *)
(* aperture), so an address is kept as hi * 2^24 + lo.                     *)
(***************************************************************************)
Addr(hi, lo) == [hi |-> hi, lo |-> lo]
ToAddr(n) == Addr(n \div 16777216, n % 16777216)
AddrPlus(a, n) ==
    LET lo == a.lo + (n % 16777216)
    IN Addr(a.hi + (n \div 16777216) + (lo \div 16777216), lo % 16777216)
AddrLessEq(a, b) == a.hi < b.hi \/ (a.hi = b.hi /\ a.lo <= b.lo)

LS7A_REG_BASE == \H1FE00000
LS7A_PCICONFIGBASE == \H00
LS7A_IREGBASE == \H100
LS7A_PCICONFIG_BASE == LS7A_REG_BASE + LS7A_PCICONFIGBASE
LS7A_INTERNAL_REG_BASE == LS7A_REG_BASE + LS7A_IREGBASE
\* the window rounded up to 0x100
LS7A_INTERNAL_REG_SIZE_rounded == \H100
LS7A_INTERNAL_REG_SIZE == \HE0
NR_REGS == \HE0 \div 4
HT1LO_PCICFG_BASE == \H1A000000
HT1LO_PCICFG_SIZE == \H02000000
PM_MMIO_ADDR == Addr(\H0E0010, \H080000)      \* 0x0e0010080000
BIOS_SIZE == 2 * MiB
VIRT_PCI_MEM_BASE == \H40000000
VIRT_PCI_MEM_SIZE == \H40000000
VIRT_PCI_IO_BASE == \H18000000
VIRT_PCI_IO_SIZE == \H000C0000
UART_BASE == \H1FE001E0
UART_SIZE == 8                \* serial_mm_init with regshift 0: eight registers

Region(name, base, size) == [name |-> name, base |-> base, size |-> size]

\* memory_region_add_subregion / sysbus_mmio_map / rom_add_blob_fixed in
\* mips_loongson3_init, loongson3_pcie_init, ls7a_pcihost_realize and
\* ls7a_realize; the UART only when a serial backend exists, the parameter
\* blob only when a kernel is loaded
MemoryMap(ram_size, serial, kernel) ==
    {Region("loongson3.lowram", ToAddr(0), 256 * \H100000),
     Region("loongson3.bios", ToAddr(\H1FC00000), BIOS_SIZE),
     Region("loongson3.highram", Addr(\H80, 0), ram_size),
     Region("loongson3_pm", PM_MMIO_ADDR, PM_MMIO_SIZE),
     Region("pci-io", ToAddr(VIRT_PCI_IO_BASE), VIRT_PCI_IO_SIZE),
     Region("pci-mem", ToAddr(VIRT_PCI_MEM_BASE), VIRT_PCI_MEM_SIZE),
     Region("ls7a_pci_conf", ToAddr(HT1LO_PCICFG_BASE), HT1LO_PCICFG_SIZE),
     Region("north-bridge-register", ToAddr(LS7A_INTERNAL_REG_BASE),
            LS7A_INTERNAL_REG_SIZE),
     Region("north-bridge-pci-config", ToAddr(LS7A_PCICONFIG_BASE),
            LS7A_PCICONFIG_SIZE)}
    \cup (IF serial THEN {Region("serial", ToAddr(UART_BASE), UART_SIZE)} ELSE {})
    \cup (IF kernel
          THEN {Region("params", ToAddr(BOOTPARAM_PHYADDR), PARAMS_SIZE)}
          ELSE {})

Mapped(name) == \E r \in memmap : r.name = name

(***************************************************************************)
(* LS7A internal register window (ls7a_ops)                                *)
(***************************************************************************)
MaxMmioOps == 2

\* ls7a_writel keeping the value
ls7a_writel_storing(r, addr, val) == [r EXCEPT ![addr \div 4] = val]

\* ls7a_writel: the register bank when the handler returns
ls7a_writel(r, addr, val) == r

\* ls7a_readl: saddr = addr >> 2; return s->regs[saddr]
ls7a_readl(r, addr) == r[addr \div 4]

\* aligned 4-byte accesses only (ls7a_ops.valid) inside the window
RegWindowAddrs == {a \in 0..(LS7A_INTERNAL_REG_SIZE - 1) : a % 4 = 0}
RegAddrs == {\H00, \H04, \H70, \HDC}
RegVals == {\H5A5A5A5A}

NoReg == [op |-> "none", addr |-> 0, idx |-> 0, val |-> 0, rd |-> 0]

RegRead(addr) ==
    /\ Mapped("north-bridge-register")
    /\ nMmio < MaxMmioOps
    /\ lastReg' = [NoReg EXCEPT !.op = "read", !.addr = addr,
                                !.idx = addr \div 4, !.rd = ls7a_readl(regs, addr)]
    /\ nMmio' = nMmio + 1
    /\ UNCHANGED <<regs, pciCalls, extLast, memmap, bridgeVars>>

RegWrite(addr, val) ==
    /\ Mapped("north-bridge-register")
    /\ nMmio < MaxMmioOps
    /\ regs' = ls7a_writel(regs, addr, val)
    /\ lastReg' = [NoReg EXCEPT !.op = "write", !.addr = addr,
                                !.idx = addr \div 4, !.val = val]
    /\ nMmio' = nMmio + 1
    /\ UNCHANGED <<pciCalls, extLast, memmap, bridgeVars>>

(***************************************************************************)
(* Extended configuration window (ls7a_pci_config_ops)                     *)
(* pci_data_read and pci_data_write belong to the PCI host core: they      *)
(* decode bus = addr[23:16], devfn = addr[15:8], register = addr[7:0] and  *)
(* go to the device's config_read / config_write; with no device a write   *)
(* is dropped and a read returns all-ones.  The bridge function at devfn 0 *)
(* of bus 0 is the only device here (no display or network card).          *)
(***************************************************************************)
Present(bus, devfn) == bus = 0 /\ devfn = 0
BusOf(addr) == (addr \div 65536) % 256
DevfnOf(addr) == (addr \div 256) % 256
RegOf(addr) == addr % PCI_CONFIG_SPACE_SIZE
\* MIN(len, limit - addr)
ClampLen(addr, len) ==
    IF len < PCI_CONFIG_SPACE_SIZE - RegOf(addr)
    THEN len ELSE PCI_CONFIG_SPACE_SIZE - RegOf(addr)

\* pci_data_read: the uint32_t it returns, as four bytes
pci_data_read(d, addr, len) ==
    IF ~Present(BusOf(addr), DevfnOf(addr)) THEN Ones(4)
    ELSE LET n == ClampLen(addr, len)
         IN pci_default_read_config(d, RegOf(addr), n) \o Zeros(4 - n)

\* pci_data_write: the bridge function's configuration space afterwards
pci_data_write(d, addr, val, len) ==
    IF ~Present(BusOf(addr), DevfnOf(addr)) THEN d.config
    ELSE pci_default_write_config(d, RegOf(addr), val, ClampLen(addr, len))

\* ls7a_pci_config_write folding every address to 24 bits
ls7a_pci_config_write_fold24(addr, val, size) ==
    [op |-> "write", addr |-> addr % 16777216, val |-> val, len |-> size]

\* ls7a_pci_config_read: the call of pci_data_read it makes
ls7a_pci_config_read(addr, size) ==
    LET tmp_addr == IF (addr \div 16777216) % 2 = 1     \* addr & 0x1000000
                    THEN addr % 65536                   \* addr & 0xffff
                    ELSE addr % 16777216                \* addr & 0xffffff
    IN [op |-> "read", addr |-> tmp_addr, val |-> <<>>, len |-> size]

\* ls7a_pci_config_write: the call of pci_data_write it makes
ls7a_pci_config_write(addr, val, size) ==
    LET tmp_addr == IF (addr \div 16777216) % 2 = 1
                    THEN addr % 65536
                    ELSE addr % 16777216
    IN [op |-> "write", addr |-> tmp_addr, val |-> val, len |-> size]

\* offsets into the 32 MiB window: the bridge function, an empty slot, a
\* bus number, each with address bit 24 clear and set, and the window's end
\* as <<offset, size>>: 1, 2 and 4-byte accesses, naturally aligned
\* (ls7a_pci_config_ops.valid)
ExtAccesses == {<<\H0000000, 4>>, <<\H0000010, 4>>, <<\H0000041, 1>>,
                <<\H0000042, 2>>, <<\H0000800, 4>>, <<\H0120000, 4>>,
                <<\H0FFFFFC, 4>>, <<\H1000000, 4>>, <<\H1120040, 2>>,
                <<\H1340801, 1>>, <<\H1FFFFFC, 4>>}
ExtVal(size) == SubSeq(<<\HA5, \H5A, \HC3, \H3C>>, 1, size)

NoExt == [op |-> "none", addr |-> 0, size |-> 0, val |-> <<>>, rd |-> <<>>,
          before |-> 0]

ExtConfigRead(addr, size) ==
    /\ Mapped("ls7a_pci_conf")
    /\ nMmio < MaxMmioOps
    /\ LET call == ls7a_pci_config_read(addr, size)
       IN /\ pciCalls' = Append(pciCalls, call)
          /\ extLast' = [NoExt EXCEPT !.op = "read", !.addr = addr,
                                      !.size = size,
                                      !.rd = pci_data_read(Dev, call.addr, call.len),
                                      !.before = Len(pciCalls)]
    /\ nMmio' = nMmio + 1
    /\ UNCHANGED <<regs, lastReg, memmap, bridgeVars>>

ExtConfigWrite(addr, size) ==
    /\ Mapped("ls7a_pci_conf")
    /\ nMmio < MaxMmioOps
    /\ LET call == ls7a_pci_config_write(addr, ExtVal(size), size)
       IN /\ pciCalls' = Append(pciCalls, call)
          /\ config' = pci_data_write(Dev, call.addr, call.val, call.len)
          /\ extLast' = [NoExt EXCEPT !.op = "write", !.addr = addr,
                                      !.size = size, !.val = ExtVal(size),
                                      !.before = Len(pciCalls)]
    /\ nMmio' = nMmio + 1
    /\ UNCHANGED <<regs, lastReg, memmap, wmask, cmask, nResets, nAccess, lastOp>>

\* the windows not built, for the specifications of the other parts
MmioIdle ==
    /\ regs = <<>>
    /\ lastReg = NoReg
    /\ pciCalls = <<>>
    /\ extLast = NoExt
    /\ memmap = {}
    /\ nMmio = 0

MmioRams == {256 * MiB, MaxRamMiB * MiB}

\* the machine built: the register bank zeroed with its object, the regions
\* mapped
MmioInit ==
    /\ regs = [i \in 0..(NR_REGS - 1) |-> 0]
    /\ lastReg = NoReg
    /\ pciCalls = <<>>
    /\ extLast = NoExt
    /\ \E r \in MmioRams, serial \in BOOLEAN, kernel \in BOOLEAN :
           memmap = MemoryMap(r, serial, kernel)
    /\ nMmio = 0

\* the bridge function as the first system reset leaves it, which is how the
\* guest first sees it
BridgeAfterReset ==
    LET d == pci_do_device_reset(ls7a_reset(ls7a_realize))
    IN /\ config = d.config
       /\ wmask = d.wmask
       /\ cmask = d.cmask
       /\ nResets = 1
       /\ nAccess = 0
       /\ lastOp = [NoOp EXCEPT !.op = "reset"]

(***************************************************************************)
(* Run time: CPU reset handlers and guest execution                        *)
(* Machine initialisation has ended (with a kernel loaded, or with a BIOS) *)
(* before the first system reset calls the registered reset handlers.      *)
(***************************************************************************)
MaxRunOps == 3

Running == bootPc \in {"done", "bios"}

\* what a CPU may hold after the guest has run on it
GuestCpuState == [gpr4 |-> 7, gpr5 |-> Word(7), gpr6 |-> Word(7),
                  PC |-> \H1000, BEV |-> FALSE, ERL |-> FALSE]

\* the reset handler of CPU i dropping the kernel once it has seeded it
CpuReset_forgetting_kernel(i) ==
    /\ Running
    /\ nRun < MaxRunOps
    /\ i \in DOMAIN cpus
    /\ cpus' = [cpus EXCEPT ![i] = main_cpu_reset(i = 1, loaderparams)]
    /\ loaderparams' = [loaderparams EXCEPT !.kernel_filename = FALSE]
    /\ lastReset' = i
    /\ nRun' = nRun + 1
    /\ UNCHANGED <<bootPc, machine, initrd, ret, parg_env, environ,
                   boot_params_buf, boot_params_p, p, lp, chain, emap, cpuinfo,
                   rom, exitReason>>

\* the reset handler registered for CPU i: qemu_register_reset(main_cpu_reset, cpu)
CpuReset(i) ==
    /\ Running
    /\ nRun < MaxRunOps
    /\ i \in DOMAIN cpus
    /\ cpus' = [cpus EXCEPT ![i] = main_cpu_reset(i = 1, loaderparams)]
    /\ lastReset' = i
    /\ nRun' = nRun + 1
    /\ UNCHANGED bootVars

\* the guest runs on CPU i and leaves its own values in the registers
GuestRun(i) ==
    /\ Running
    /\ nRun < MaxRunOps
    /\ i \in DOMAIN cpus
    /\ cpus' = [cpus EXCEPT ![i] = GuestCpuState]
    /\ lastReset' = 0
    /\ nRun' = nRun + 1
    /\ UNCHANGED bootVars

\* the guest reaches the power-management trap or the interrupt router
RunStep == Running /\ nRun < MaxRunOps /\ nRun' = nRun + 1 /\ lastReset' = 0

RunMachines == [ram_size : {512 * MiB}, kernel : BOOLEAN, cmdline_len : {13},
                initrd : BOOLEAN, smp_cpus : {1, 3}]
RunCpus == 1..3

RunInit == bootPc = "init" /\ machine \in RunMachines /\ BootZero

(***************************************************************************)
(* Specifications                                                          *)
(***************************************************************************)
PmNext ==
    \/ \E a \in PmAddrs, v \in PmVals :
           PmWrite(a, v) /\ UNCHANGED <<bridgeVars, irqVars, bootVars, runVars, mmioVars>>
    \/ \E a \in PmAddrs : PmRead(a) /\ UNCHANGED <<bridgeVars, irqVars, bootVars, runVars, mmioVars>>

InitPm == PmInit /\ BridgeIdle /\ IrqInit /\ BootIdle /\ RunIdle /\ MmioIdle
SpecPm == InitPm /\ [][PmNext]_vars

BridgeNext ==
    \/ SystemReset /\ UNCHANGED <<pmVars, irqVars, bootVars, runVars, mmioVars>>
    \/ \E a \in GuestAddrs, v \in WriteVals :
           PciConfWrite(a, v) /\ UNCHANGED <<pmVars, irqVars, bootVars, runVars, mmioVars>>
    \/ \E a \in GuestAddrs :
           PciConfRead(a) /\ UNCHANGED <<pmVars, irqVars, bootVars, runVars, mmioVars>>

InitBridge == PmInit /\ BridgeInit /\ IrqInit /\ BootIdle /\ RunIdle /\ MmioIdle
SpecBridge == InitBridge /\ [][BridgeNext]_vars

IrqNext ==
    \E d \in Devfns, pn \in Pins, n \in IrqNums :
        MapIrq(d, pn, n) /\ UNCHANGED <<pmVars, bridgeVars, bootVars, runVars, mmioVars>>

InitIrq == PmInit /\ BridgeIdle /\ IrqInit /\ BootIdle /\ RunIdle /\ MmioIdle
SpecIrq == InitIrq /\ [][IrqNext]_vars

BootOthers ==
    UNCHANGED <<pmVars, bridgeVars, irqVars, lastReset, nRun, mmioVars>>

BootNext ==
    \/ MachineInit /\ BootOthers
    \/ \E ok \in BOOLEAN, kh \in KernelHighs, sz \in ImageSizes, lok \in BOOLEAN :
           LoadKernel(ok, kh, sz, lok) /\ BootOthers /\ UNCHANGED cpus
    \/ SetPromArgv /\ BootOthers /\ UNCHANGED cpus
    \/ InitMemoryMap /\ BootOthers /\ UNCHANGED cpus
    \/ \E f \in {"unreadable", "wellformed", "malformed"}, hz \in HostFreqs :
           InitCpuInfo(f, hz) /\ BootOthers /\ UNCHANGED cpus
    \/ InitSystemLoongson /\ BootOthers /\ UNCHANGED cpus
    \/ InitIrqSource /\ BootOthers /\ UNCHANGED cpus
    \/ InitInterfaceInfo /\ BootOthers /\ UNCHANGED cpus
    \/ BoardDevicesInfo /\ BootOthers /\ UNCHANGED cpus
    \/ InitSpecialInfo /\ BootOthers /\ UNCHANGED cpus
    \/ FinishBootParams /\ BootOthers /\ UNCHANGED cpus

InitBoot == PmInit /\ BridgeIdle /\ IrqInit /\ BootInit /\ RunIdle /\ MmioIdle
SpecBoot == InitBoot /\ [][BootNext]_vars

RunNext ==
    \/ BootNext
    \/ \E i \in RunCpus : CpuReset(i) /\ UNCHANGED <<pmVars, bridgeVars, irqVars, mmioVars>>
    \/ \E i \in RunCpus : GuestRun(i) /\ UNCHANGED <<pmVars, bridgeVars, irqVars, mmioVars>>
    \/ \E v \in {0, \HFF} :
           /\ PmWrite(PM_CNTL_MODE, v)
           /\ RunStep
           /\ UNCHANGED <<bridgeVars, irqVars, bootVars, cpus, mmioVars>>
    \/ /\ PmRead(PM_CNTL_MODE)
       /\ RunStep
       /\ UNCHANGED <<bridgeVars, irqVars, bootVars, cpus, mmioVars>>
    \/ /\ MapIrq(8, 1, 0)
       /\ RunStep
       /\ UNCHANGED <<pmVars, bridgeVars, bootVars, cpus, mmioVars>>

InitRun == PmInit /\ BridgeIdle /\ IrqInit /\ RunInit /\ RunIdle /\ MmioIdle
SpecRun == InitRun /\ [][RunNext]_vars

MmioOthers == UNCHANGED <<pmVars, irqVars, bootVars, runVars>>

MmioNext ==
    \/ \E a \in RegAddrs : RegRead(a) /\ MmioOthers
    \/ \E a \in RegAddrs, v \in RegVals : RegWrite(a, v) /\ MmioOthers
    \/ \E x \in ExtAccesses : ExtConfigRead(x[1], x[2]) /\ MmioOthers
    \/ \E x \in ExtAccesses : ExtConfigWrite(x[1], x[2]) /\ MmioOthers

InitMmio ==
    PmInit /\ BridgeAfterReset /\ IrqInit /\ BootIdle /\ RunIdle /\ MmioInit
SpecMmio == InitMmio /\ [][MmioNext]_vars

(***************************************************************************)
(* Power-management trap: properties                                       *)
(***************************************************************************)
\* the writes in the log that hit the control offset with value v
ControlWrites(log, v) ==
    Cardinality({i \in 1..Len(log) :
        log[i].op = "write" /\ log[i].addr = PM_CNTL_MODE /\ log[i].val = v})

\* C1: the reset requests raised are exactly the writes of 0x00 to offset
\* 0x10 and the shutdown requests exactly the writes of 0xFF to it; reads,
\* other values and other offsets raise nothing, and reads return 0.
C1_PmRequestsMatchWrites ==
    /\ pmResetRequests = ControlWrites(pmLog, 0)
    /\ pmShutdownRequests = ControlWrites(pmLog, \HFF)
    /\ pmReadVal = 0

\* a reset write, a shutdown write, an ignored write and a read have happened
C1_Witness ==
    /\ pmResetRequests = 1
    /\ pmShutdownRequests = 1
    /\ \E i \in 1..Len(pmLog) : pmLog[i].op = "read"
    /\ \E i \in 1..Len(pmLog) :
          pmLog[i].op = "write" /\ pmLog[i].addr # PM_CNTL_MODE /\ pmLog[i].val = 0

(***************************************************************************)
(* Bridge configuration space: properties                                  *)
(***************************************************************************)
BARs == {PCI_BASE_ADDRESS_0, PCI_BASE_ADDRESS_1, PCI_BASE_ADDRESS_2,
         PCI_BASE_ADDRESS_3, PCI_BASE_ADDRESS_4, PCI_BASE_ADDRESS_5}

BarValuesAtReset ==
    \A b \in BARs :
        Bytes(config, b, 4) =
            IF b = PCI_BASE_ADDRESS_3 THEN <<\H04, 0, 0, 0>> ELSE Zeros(4)

\* C2: right after every reset the identifiers and BARs read vendor 0x0014,
\* device 0x7A00, revision 0, class 0x0600, BAR3 = 4, the other BARs 0.
C2_ResetImage ==
    lastOp.op = "reset" =>
        /\ Bytes(config, \H00, 2) = <<\H14, \H00>>
        /\ Bytes(config, \H02, 2) = <<\H00, \H7A>>
        /\ config[\H08] = \H00
        /\ Bytes(config, \H0A, 2) = <<\H00, \H06>>
        /\ BarValuesAtReset

\* a second reset, after the guest has used both of its accesses
C2_Witness == lastOp.op = "reset" /\ nResets = 2 /\ nAccess = MaxAccess

\* C3: in every state and for every register of the window, a write of
\* all-ones followed by a read returns (original OR write mask), and a write
\* of any value to a register whose write mask is zero changes nothing; the
\* same for the write and the read-back the guest actually performed.
C3_WriteMaskEnforced ==
    /\ \A a \in WindowAddrs :
          LET orig == Bytes(config, a, 4)
              wm   == Bytes(wmask, a, 4)
              ones == [Dev EXCEPT !.config = ls7a_pciconf_writel(Dev, a, Ones(4))]
          IN /\ ls7a_pciconf_readl(ones, a) = OrBytes(orig, wm)
             /\ wm = Zeros(4) =>
                   \A v \in WriteVals : ls7a_pciconf_writel(Dev, a, v) = config
    /\ (lastOp.op = "read" /\ lastOp.afterOnes) =>
          lastOp.rd = OrBytes(lastOp.worig, Bytes(wmask, lastOp.addr, 4))
    /\ (lastOp.op = "write" /\ Bytes(wmask, lastOp.addr, 4) = Zeros(4)) =>
          Bytes(config, lastOp.addr, 4) = lastOp.orig

\* the guest wrote all-ones to a partly writable register and read it back:
\* some bits changed and some did not
C3_Witness ==
    /\ lastOp.op = "read"
    /\ lastOp.afterOnes
    /\ lastOp.rd # lastOp.worig
    /\ lastOp.rd # Ones(4)

\* C4 as stated: after a reset every BAR is fully writable.
C4_BarsFullyWritable ==
    lastOp.op = "reset" =>
        /\ \A b \in BARs : Bytes(wmask, b, 4) = Ones(4)
        /\ BarValuesAtReset

\* C4 amended: after a reset every BAR has an all-zero write mask (it is
\* read-only), with every BAR value zero except BAR3 = 4.
C4_BarsReadOnly ==
    lastOp.op = "reset" =>
        /\ \A b \in BARs : Bytes(wmask, b, 4) = Zeros(4)
        /\ BarValuesAtReset

\* right after a second reset, with guest accesses before it, BAR3 reads 4
\* under an all-zero write mask
C4_Witness ==
    /\ lastOp.op = "reset"
    /\ nResets = 2
    /\ nAccess >= 1
    /\ Bytes(config, PCI_BASE_ADDRESS_3, 4) = LE(4, 4)
    /\ Bytes(wmask, PCI_BASE_ADDRESS_3, 4) = Zeros(4)

\* the configuration space as the first reset leaves it: no guest access
\* comes before the first reset, so this state is unique
FirstResetImage == pci_do_device_reset(ls7a_reset(ls7a_realize))

\* C5: right after every reset the whole configuration space, values and
\* write masks, is what it was right after the first reset.
C5_ResetRestoresWholeConfigSpace ==
    lastOp.op = "reset" =>
        /\ config = FirstResetImage.config
        /\ wmask = FirstResetImage.wmask

(***************************************************************************)
(* Interrupt router: properties                                            *)
(***************************************************************************)
\* C6: the line is entry (pin + slot) mod 8 of [3, 4, 5, 6, 7, 9, 10, 11],
\* whatever the interrupt-number argument and the calls before; a repeated
\* call for the same slot and pin returns the same line.
C6_MapIrqTable ==
    irqLast # NoCall =>
        LET slot == irqLast.devfn \div 8
            idx == (irqLast.pin + slot) % 8
            line == CASE idx = 0 -> 3 [] idx = 1 -> 4 [] idx = 2 -> 5
                      [] idx = 3 -> 6 [] idx = 4 -> 7 [] idx = 5 -> 9
                      [] idx = 6 -> 10 [] idx = 7 -> 11
        IN /\ irqLast.line = line
           /\ irqPrev.same => irqPrev.line = irqLast.line

\* slot 31, pin 4 (index wraps to 3) asked twice, with different irq_num
C6_Witness ==
    /\ irqLast.devfn \div 8 = 31
    /\ irqLast.pin = 4
    /\ irqLast.line = 6
    /\ irqPrev.same
    /\ irqPrev.irq_num # irqLast.irq_num

(***************************************************************************)
(* Boot-info chain: properties                                             *)
(***************************************************************************)
PlacementOrder == <<"memory_map", "cpu_info", "system", "irq_source",
                    "interface", "board_devices", "special">>
OffsetFields == <<"memory_offset", "cpu_offset", "system_offset", "irq_offset",
                  "interface_offset", "boarddev_table_offset", "special_offset">>
RoundUp64(x) == ((x + 63) \div 64) * 64
GuestPhys(off) == BOOTPARAM_PHYADDR + off

\* C7: the records are placed in the order memory map, CPU info, system
\* info, IRQ routing, interface, board devices, special attribute; each
\* stored offset is the one before plus that record's size rounded up to 64,
\* and no record reaches into the next.
C7_ChainOrderAndSpacing ==
    /\ Len(chain) <= 7
    /\ \A i \in 1..Len(chain) : chain[i].name = PlacementOrder[i]
    /\ bootPc = "done" => Len(chain) = 7
    /\ \A i \in 1..(Len(chain) - 1) :
          /\ lp[OffsetFields[i + 1]] =
                 lp[OffsetFields[i]] + RoundUp64(chain[i].size)
          /\ chain[i].at + chain[i].size <= chain[i + 1].at

\* a finished chain of seven records
C7_Witness == bootPc = "done" /\ Len(chain) = 7 /\ lp.special_offset > 0

\* C8 as stated: every record starts at a multiple of 64 and every stored
\* offset is a multiple of 64.
C8_Aligned64 ==
    bootPc = "done" =>
        /\ \A i \in 1..Len(chain) : GuestPhys(chain[i].at) % 64 = 0
        /\ \A i \in 1..7 : lp[OffsetFields[i]] % 64 = 0

\* C8 amended: every record starts at a guest-physical address that is a
\* multiple of 32, and every stored offset is 24 modulo 64 (152 plus a
\* multiple of 64).
C8_Aligned32 ==
    bootPc = "done" =>
        /\ \A i \in 1..Len(chain) : GuestPhys(chain[i].at) % 32 = 0
        /\ \A i \in 1..7 :
              lp[OffsetFields[i]] >= 152 /\ (lp[OffsetFields[i]] - 152) % 64 = 0

\* a finished chain whose records start at odd multiples of 32, built with a
\* ram-disk
C8_Witness ==
    /\ bootPc = "done"
    /\ initrd.size > 0
    /\ \A i \in 1..7 : GuestPhys(chain[i].at) % 64 = 32

\* C9 as stated: every stored offset is the record's address minus the first
\* byte after the boot_params header (taken unrounded or rounded to 64).
C9_OffsetsFromEndOfHeader ==
    bootPc = "done" =>
        \E anchor \in {boot_params_buf + Sizeof_boot_params,
                       boot_params_buf + RoundUp64(Sizeof_boot_params)} :
            \A i \in 1..7 : lp[OffsetFields[i]] = chain[i].at - anchor

\* C9 amended: every stored offset is the record's address minus the address
\* of struct loongson_params itself, which lies 40 bytes into boot_params.
C9_OffsetsFromLp ==
    bootPc = "done" =>
        \A i \in 1..7 : lp[OffsetFields[i]] = chain[i].at - (boot_params_buf + 40)

\* a finished chain behind a long command line
C9_Witness ==
    /\ bootPc = "done"
    /\ loaderparams.kernel_cmdline_len = 1000
    /\ lp.memory_offset = 152

\* C10 as stated: low size R>>20 and high size 0 up to 256 MiB, low size 256
\* and high size (R>>20) - 256 above.
C10_MemorySplit ==
    emap # <<>> =>
        LET R == loaderparams.ram_size IN
        IF R <= 256 * 1048576
        THEN emap.map[1].mem_size = R \div 1048576 /\ emap.map[2].mem_size = 0
        ELSE emap.map[1].mem_size = 256
             /\ emap.map[2].mem_size = (R \div 1048576) - 256

\* C10 amended: the low entry is 16 less, min(256, R>>20) - 16; the high
\* entry is as stated.
C10_MemorySplitLess16 ==
    emap # <<>> =>
        LET R == loaderparams.ram_size IN
        IF R <= 256 * 1048576
        THEN emap.map[1].mem_size = (R \div 1048576) - 16
             /\ emap.map[2].mem_size = 0
        ELSE emap.map[1].mem_size = 256 - 16
             /\ emap.map[2].mem_size = (R \div 1048576) - 256

\* 560 MiB of RAM: 240 low, 304 high
C10_Witness ==
    /\ bootPc = "done"
    /\ loaderparams.ram_size = 560 * 1048576
    /\ emap.map[1].mem_size = 240
    /\ emap.map[2].mem_size = 304

(***************************************************************************)
(* Environment variables: properties                                       *)
(***************************************************************************)
RECURSIVE NumberOf(_)
\* the number a sequence of decimal digits spells
NumberOf(digits) ==
    IF Len(digits) = 0 THEN 0
    ELSE 10 * NumberOf(SubSeq(digits, 1, Len(digits) - 1)) + digits[Len(digits)]

\* plain decimal text: digits only, no leading zero unless the text is "0"
IsDecimalText(digits) ==
    /\ Len(digits) >= 1
    /\ \A i \in 1..Len(digits) : digits[i] \in 0..9
    /\ Len(digits) > 1 => digits[1] # 0

\* C11: once the kernel load has set them, memsize is the decimal text of
\* min(256, R>>20) and highmemsize that of max(0, (R>>20) - 256), the two sum
\* to R>>20, and for R = 512 MiB both are "256"; a finished load has set them.
C11_MemsizeEnv ==
    /\ bootPc = "done" => environ # <<>>
    /\ environ # <<>> =>
          LET R == loaderparams.ram_size
              q == R \div 1048576
              mn == IF q < 256 THEN q ELSE 256
              mx == IF q - 256 > 0 THEN q - 256 ELSE 0
          IN /\ IsDecimalText(environ.memsize)
             /\ IsDecimalText(environ.highmemsize)
             /\ NumberOf(environ.memsize) = mn
             /\ NumberOf(environ.highmemsize) = mx
             /\ NumberOf(environ.memsize) + NumberOf(environ.highmemsize) = q
             /\ R = 512 * 1048576 =>
                   /\ environ.memsize = <<2, 5, 6>>
                   /\ environ.highmemsize = <<2, 5, 6>>

\* a finished load with 512 MiB: both variables read "256"
C11_Witness ==
    /\ bootPc = "done"
    /\ loaderparams.ram_size = 512 * 1048576
    /\ environ.memsize = <<2, 5, 6>>
    /\ environ.highmemsize = <<2, 5, 6>>

(***************************************************************************)
(* CPU reset: properties                                                   *)
(***************************************************************************)
\* C12: with a kernel loaded, whenever the boot CPU's reset handler has just
\* run, a0 = 2, a1 = the kseg0 address of the parameter blob, a2 = that
\* address plus ret, and PC = the entry point load_elf returned.
C12_BootCpuSeeded ==
    (lastReset = 1 /\ bootPc = "done") =>
        /\ cpus[1].gpr4 = 2
        /\ cpus[1].gpr5 = [base |-> "0xffffffff80000000", off |-> 267386880]
        /\ cpus[1].gpr6 = [base |-> "0xffffffff80000000", off |-> 267386880 + ret]
        /\ cpus[1].PC = initrd.kernel_entry
        /\ cpus[1].PC # ResetVector

\* the boot CPU reset, run by the guest and reset again
C12_Witness ==
    /\ lastReset = 1
    /\ bootPc = "done"
    /\ nRun = 3
    /\ cpus[1].gpr4 = 2

\* C14 as stated: after its reset handler a CPU other than the first is in
\* its power-on reset state, kernel or not.
C14_OtherCpusPowerOn ==
    (lastReset > 1) => cpus[lastReset] = cpu_reset

\* C14 amended: after its reset handler a CPU other than the first has its
\* general registers and PC as at power-on; BEV and ERL are as at power-on
\* when no kernel was supplied and both cleared when one was.
C14_OtherCpusStatusOnly ==
    (lastReset > 1) =>
        LET c == cpus[lastReset] IN
        /\ c.gpr4 = 0
        /\ c.gpr5 = [base |-> "0", off |-> 0]
        /\ c.gpr6 = [base |-> "0", off |-> 0]
        /\ c.PC = ResetVector
        /\ c.BEV = ~machine.kernel
        /\ c.ERL = ~machine.kernel

\* a secondary CPU reset after the guest ran on it, with a kernel loaded
C14_Witness ==
    /\ lastReset = 3
    /\ bootPc = "done"
    /\ nRun >= 2
    /\ ~cpus[3].BEV

\* C15: no reset handler runs before initialisation has ended and written
\* the loader parameters; from then on no step (reset handler, guest run,
\* power-management access, interrupt routing) changes the loader parameters
\* or anything of the boot-parameter buffer.
C15_WriteOnce ==
    /\ [](nRun > 0 =>
            /\ Running
            /\ loaderparams.kernel_filename = machine.kernel
            /\ machine.kernel =>
                  /\ loaderparams.a0 = 2
                  /\ loaderparams.ram_size = machine.ram_size
                  /\ loaderparams.kernel_entry = initrd.kernel_entry
                  /\ Len(chain) = 7
                  /\ rom # {})
    /\ [][Running => UNCHANGED <<loaderparams, parg_env, boot_params_buf,
                                 boot_params_p, lp, chain, emap, cpuinfo, rom,
                                 environ>>]_vars

\* the boot CPU has been reset twice after a power-management write
C15_Witness ==
    /\ bootPc = "done"
    /\ nRun = 3
    /\ lastReset = 1
    /\ pmResetRequests = 1

(***************************************************************************)
(* Ram-disk: properties                                                    *)
(***************************************************************************)
\* the smallest multiple of 64 KiB that is at least kernel_high and at least
\* 0x03EA0000
Placement(kernel_high) ==
    LET m == IF kernel_high > 65667072 THEN kernel_high ELSE 65667072
    IN ((m + 65535) \div 65536) * 65536

TooLarge == "memory too small for initial ram disk"

\* C13: a requested ram-disk larger than RAM size minus its placement ends
\* the loader with the ram-disk-too-large error, and at that exit the
\* ram-disk has not been loaded, memsize and highmemsize are not set, and no
\* parameter blob has been built or registered.
C13_TooLargeExitsEarly ==
    /\ (/\ machine.initrd
        /\ initrd.image > 0
        /\ initrd.image > machine.ram_size - Placement(initrd.kernel_high))
       => (bootPc = "exit" /\ exitReason = TooLarge)
    /\ exitReason = TooLarge =>
          /\ initrd.image > machine.ram_size - Placement(initrd.kernel_high)
          /\ ~initrd.loaded
          /\ environ = <<>>
          /\ parg_env = <<>>
          /\ chain = <<>>
          /\ emap = <<>>
          /\ rom = {}

\* a 200 MiB ram-disk with 256 MiB of RAM
C13_Witness ==
    /\ exitReason = TooLarge
    /\ initrd.image = 200 * 1048576
    /\ machine.ram_size = 256 * 1048576

\* C18: a ram-disk of positive size is loaded at the smallest 64 KiB-aligned
\* address at or above both the kernel's highest address and 0x03EA0000, and
\* it is loaded exactly when that address plus its size is within RAM.
C18_InitrdPlacement ==
    /\ initrd.loaded =>
          /\ initrd.image > 0
          /\ initrd.load_at % 65536 = 0
          /\ initrd.load_at >= initrd.kernel_high
          /\ initrd.load_at >= 65667072
          /\ (initrd.load_at - 65536 < initrd.kernel_high
              \/ initrd.load_at - 65536 < 65667072)
          /\ initrd.load_at + initrd.image <= machine.ram_size
    /\ (machine.initrd /\ initrd.image > 0) =>
          (initrd.loaded <=>
              Placement(initrd.kernel_high) + initrd.image <= machine.ram_size)

\* a ram-disk loaded above a kernel that ends beyond the fixed minimum
C18_Witness ==
    /\ bootPc = "done"
    /\ initrd.loaded
    /\ initrd.kernel_high > 65667072
    /\ initrd.load_at > initrd.kernel_high
    /\ initrd.size = 4096

(***************************************************************************)
(* Parameter buffer capacity: properties                                   *)
(***************************************************************************)
\* C17: whenever the builder has gone on past the argument strings, the
\* command line is stored whole (argv[1] holds as many characters as the text
\* has) and the strings and every record lie inside the 1 MiB buffer.
C17_NoOverflowNoSilentTruncation ==
    /\ parg_env # <<>> =>
          /\ parg_env.arg1.stored = parg_env.arg1.len
          /\ parg_env.arg1.at + parg_env.arg1.stored + 1 <= 1048576
    /\ \A i \in 1..Len(chain) : chain[i].at + chain[i].size <= 1048576

(***************************************************************************)
(* Extended configuration window: properties                               *)
(***************************************************************************)
\* bit k of n
Bit(n, k) == (n \div (2 ^ k)) % 2
\* n with the bits from k upward cleared
LowBits(n, k) == n % (2 ^ k)

\* C16: the last access to the window made exactly one call of the
\* configuration primitive, a read for a read and a write for a write, with
\* offset A & 0xFFFF when bit 24 of A is set and A & 0xFFFFFF otherwise, the
\* same width and the same value; a read returned what the primitive
\* returned, which for a 4-byte read of an absent device is 0xFFFFFFFF.
C16_ExtConfigForwarding ==
    extLast.op # "none" =>
        LET call == pciCalls[Len(pciCalls)]
            fold == IF Bit(extLast.addr, 24) = 1
                    THEN LowBits(extLast.addr, 16)
                    ELSE LowBits(extLast.addr, 24)
            bus == LowBits(fold \div 65536, 8)
            devfn == LowBits(fold \div 256, 8)
        IN /\ Len(pciCalls) = extLast.before + 1
           /\ call.op = extLast.op
           /\ call.addr = fold
           /\ call.len = extLast.size
           /\ call.val = extLast.val
           /\ extLast.op = "read" =>
                 /\ Len(extLast.rd) = 4
                 /\ (extLast.size = 4 /\ ~(bus = 0 /\ devfn = 0)) =>
                       extLast.rd = <<255, 255, 255, 255>>
                 /\ (bus = 0 /\ devfn = 0) =>
                       \A i \in 1..extLast.size :
                           extLast.rd[i] = config[(fold % 256) + i - 1]

\* a write through the upper half of the window reached the bridge
\* function's register 0x40, and a read of an empty slot returned all-ones
C16_Witness ==
    /\ Len(pciCalls) = 2
    /\ pciCalls[1] = [op |-> "write", addr |-> 64, val |-> <<165, 90>>, len |-> 2]
    /\ config[64] = 165
    /\ extLast.op = "read"
    /\ extLast.addr = 33554428
    /\ extLast.rd = <<255, 255, 255, 255>>

(***************************************************************************)
(* Internal register window: properties                                    *)
(***************************************************************************)
\* C19: a read at offset A returns the word at index A>>2, every offset of
\* the window decodes to an index inside the 56-entry bank, and no access
\* changes the bank, the configuration space or the calls made to the
\* configuration primitive.
C19_InternalRegsReadOnly ==
    /\ [](/\ DOMAIN regs = 0..55
          /\ \A a \in RegWindowAddrs : (a \div 4) \in DOMAIN regs
          /\ lastReg.op # "none" => lastReg.addr \in RegWindowAddrs
          /\ lastReg.op # "none" => lastReg.idx = lastReg.addr \div 4
          /\ lastReg.op = "read" => lastReg.rd = regs[lastReg.addr \div 4])
    /\ [][/\ regs' = regs
          /\ lastReg' # lastReg =>
                UNCHANGED <<config, wmask, cmask, pciCalls, memmap>>]_vars

\* a read of the last register after a write to it
C19_Witness ==
    /\ lastReg.op = "read"
    /\ lastReg.addr = 220
    /\ lastReg.idx = 55
    /\ lastReg.rd = 0
    /\ nMmio = 2

(***************************************************************************)
(* Memory map: properties                                                  *)
(***************************************************************************)
RegionEnd(r) == AddrPlus(r.base, r.size)
Disjoint(r1, r2) ==
    \/ AddrLessEq(RegionEnd(r1), r2.base)
    \/ AddrLessEq(RegionEnd(r2), r1.base)
Windows == {"north-bridge-register", "north-bridge-pci-config",
            "ls7a_pci_conf", "loongson3_pm"}
ClaimedOthers == {"loongson3.bios", "serial", "pci-io", "pci-mem",
                  "loongson3.lowram", "params"}

\* C20: the four windows sit at 0x1FE00100 (0xE0 bytes), 0x1FE00000 (0x100),
\* 0x1A000000 (32 MiB) and 0x0E0010080000 (0x100); they are pairwise
\* disjoint and disjoint from the BIOS ROM, the UART, the PCI I/O and memory
\* apertures, low RAM and the parameter blob.
C20_WindowsDisjoint ==
    /\ \A n \in Windows : \E r \in memmap : r.name = n
    /\ \A r \in memmap :
          /\ r.name = "north-bridge-register" =>
                r.base = [hi |-> 31, lo |-> 14680320] /\ r.size = 224
          /\ r.name = "north-bridge-pci-config" =>
                r.base = [hi |-> 31, lo |-> 14680064] /\ r.size = 256
          /\ r.name = "ls7a_pci_conf" =>
                r.base = [hi |-> 26, lo |-> 0] /\ r.size = 33554432
          /\ r.name = "loongson3_pm" =>
                r.base = [hi |-> 917520, lo |-> 524288] /\ r.size = 256
    /\ \A r1 \in memmap, r2 \in memmap :
          (/\ r1.name \in Windows
           /\ r2.name \in Windows \cup ClaimedOthers
           /\ r1.name # r2.name) => Disjoint(r1, r2)

\* a machine with a UART and a parameter blob, after accesses to two windows
C20_Witness ==
    /\ \E r \in memmap : r.name = "serial"
    /\ \E r \in memmap : r.name = "params"
    /\ lastReg.op = "read"
    /\ extLast.op = "write"

(***************************************************************************)
(* Argument vector: properties                                             *)
(***************************************************************************)
\* the two argument pointers: entry 0 is the address of "g", stored whole at
\* offset 16 of the blob, and entry 1 the address of the command-line text
\* that follows it
ArgvPointers ==
    /\ Len(parg_env.words) = 3
    /\ parg_env.words[1] = BootparamAddr(parg_env.arg0.at)
    /\ parg_env.arg0.at = 16
    /\ parg_env.arg0.stored = 1
    /\ parg_env.words[2] = BootparamAddr(parg_env.arg1.at)
    /\ parg_env.arg1.at = parg_env.arg0.at + parg_env.arg0.stored + 1
    /\ WordOf(parg_env.words[1]) = [hi |-> 36848, lo |-> 16]
    /\ WordOf(parg_env.words[2]) = [hi |-> 36848, lo |-> 18]

\* the two argument pointers are written as the claim says, with or without
\* a ram-disk
ArgvPointersHold == parg_env # <<>> => ArgvPointers

\* C21: once the argument vector is written, with or without a ram-disk, it
\* holds exactly two argument pointers, to "g" and to the command-line
\* string inside the blob, and its entry 2 is the zero terminator.
C21_ArgvVector ==
    parg_env # <<>> =>
        /\ ArgvPointers
        /\ WordOf(parg_env.words[3]) = [hi |-> 0, lo |-> 0]

====
